---- MODULE Spec2Model ----
(***************************************************************************)
(* Model of the rule-based fallback engine of the email agent              *)
(* (src/core/llm_agent.py): the classifier _mock_categorize, the action    *)
(* extractor _mock_extract_actions and the reply drafter _mock_draft_reply.*)
(* Strings are TLA+ strings; `in` on Python strings is substring search    *)
(* and str.lower() is a character-by-character conversion.                 *)
(***************************************************************************)
EXTENDS Integers, Sequences, FiniteSets, TLC

\* The fallback engine applied to one drawn email.
VARIABLES email, pc, ret_category, ret_actions, ret_draft

\* The application: the PromptManager's fields (_emails, _prompts), the
\* content of assets/mock_inbox.json (source), the module-level LLM handle,
\* whether startup succeeded (app), the Streamlit session state
\* (selected_email_id, chat_history) and the outcome of the last call (ret).
VARIABLES _emails, _prompts, source, LLM, app, selected_email_id,
          chat_history, ret

fbVars == <<email, pc, ret_category, ret_actions, ret_draft>>

storeVars == <<_emails, _prompts, source, LLM, app, selected_email_id,
               chat_history, ret>>

vars == <<email, pc, ret_category, ret_actions, ret_draft,
          _emails, _prompts, source, LLM, app, selected_email_id,
          chat_history, ret>>

(***************************************************************************)
(* Bounds of the input space.                                              *)
(***************************************************************************)
MaxBodyParts == 2

(***************************************************************************)
(* Python string primitives.                                               *)
(***************************************************************************)
UpperToLower ==
    ("A" :> "a") @@ ("B" :> "b") @@ ("C" :> "c") @@ ("D" :> "d") @@
    ("E" :> "e") @@ ("F" :> "f") @@ ("G" :> "g") @@ ("H" :> "h") @@
    ("I" :> "i") @@ ("J" :> "j") @@ ("K" :> "k") @@ ("L" :> "l") @@
    ("M" :> "m") @@ ("N" :> "n") @@ ("O" :> "o") @@ ("P" :> "p") @@
    ("Q" :> "q") @@ ("R" :> "r") @@ ("S" :> "s") @@ ("T" :> "t") @@
    ("U" :> "u") @@ ("V" :> "v") @@ ("W" :> "w") @@ ("X" :> "x") @@
    ("Y" :> "y") @@ ("Z" :> "z")

LowerChar(c) == IF c \in DOMAIN UpperToLower THEN UpperToLower[c] ELSE c

RECURSIVE lower(_)
lower(s) ==
    IF Len(s) = 0 THEN ""
    ELSE LowerChar(SubSeq(s, 1, 1)) \o lower(SubSeq(s, 2, Len(s)))

\* Python `needle in hay` on strings: needle occurs as a contiguous substring.
Contains(needle, hay) ==
    \E i \in 1..(Len(hay) - Len(needle) + 1) :
        SubSeq(hay, i, i + Len(needle) - 1) = needle

\* any(word in hay for word in words)
AnyIn(words, hay) == \E i \in 1..Len(words) : Contains(words[i], hay)

\* any(word in a or word in b for word in words)
AnyInEither(words, a, b) ==
    \E i \in 1..Len(words) : Contains(words[i], a) \/ Contains(words[i], b)

(***************************************************************************)
(* Classifier: _mock_categorize, an ordered cascade, first match wins.     *)
(***************************************************************************)
spam_indicators ==
    << "pre-approved", "loan", "click here immediately", "act fast",
       "social security number", "unauthorized login", "suspicious",
       "verify your credentials", "verify your account", "claim your",
       "limited time", "act now", "you have won" >>

newsletter_indicators ==
    << "digest", "newsletter", "weekly update", "monthly update", "last month",
       "unsubscribe", "view in browser", "new release", "announcement",
       "latest news", "this week", "tech digest", "updates include",
       "we've been up to", "excited to share", "here's what", "what we've been",
       "this month's updates", "happy to announce", "check out",
       "new and improved",
       "and much more", "and more", "introducing", "now available",
       "last month", "this quarter", "our team", "we are thrilled" >>

newsletter_senders ==
    << "marketing", "news@", "newsletter@", "noreply@", "updates@",
       "hello@", "team@", "info@" >>

direct_action_words ==
    << "please confirm", "please send", "please update", "please review",
       "need you to", "can you", "could you", "would you",
       "must complete", "required to", "action required",
       "respond by", "reply by", "confirm by",
       "task request", "confirm your", "send your", "update your" >>

meeting_requests ==
    << "jump on a call", "schedule a call", "quick call", "can we meet",
       "meeting request", "let me know if", "what time works",
       "does this time work", "are you available", "schedule a meeting",
       "suggest a time", "suggest an alternative" >>

question_requests ==
    << "could we", "can we", "would you be able to", "are you able to",
       "do you have time", "when can you", "how soon can you" >>

\* "Spam detection (HIGHEST PRIORITY - check first)"
is_spam(subject_lower, body_lower) ==
    AnyInEither(spam_indicators, subject_lower, body_lower)

is_newsletter_content(subject_lower, body_lower) ==
    AnyInEither(newsletter_indicators, subject_lower, body_lower)

is_newsletter_sender(sender_lower) == AnyIn(newsletter_senders, sender_lower)

\* "Strong newsletter signals (must check these specifically)"
is_strong_newsletter(body_lower) ==
    \/ Contains("informational", body_lower)
    \/ Contains("unsubscribe", body_lower)
    \/ Contains("view in browser", body_lower)
    \/ Contains("we've been", body_lower)
    \/ Contains("excited to share", body_lower)
    \/ (Contains("last month", body_lower) /\ Contains("updates", body_lower))

\* "Important - from directors, CEOs, urgent (check before To-Do)"
is_important(subject_lower, sender_lower) ==
    \/ Contains("urgent", subject_lower)
    \/ Contains("director", sender_lower)
    \/ Contains("ceo", sender_lower)

\* "Check all To-Do patterns", the subject-line check and the single action
\* words combined with an urgency indicator.
is_todo(subject_lower, body_lower) ==
    \/ AnyIn(direct_action_words, body_lower)
    \/ AnyIn(meeting_requests, body_lower)
    \/ AnyIn(question_requests, body_lower)
    \/ AnyIn(<<"need help", "follow-up", "question about", "help with">>,
             subject_lower)
    \/ /\ AnyInEither(<<"confirm", "update", "review", "complete">>,
                      subject_lower, body_lower)
       /\ AnyIn(<<"please", "by eod", "deadline", "asap", "urgent",
                  "by today", "by tomorrow">>, body_lower)

\* "Policy updates, status updates, company announcements = Newsletter"
is_policy_update(subject_lower, body_lower) ==
    AnyInEither(<<"policy change", "status update", "no action",
                  "company-wide", "fyi", "for your information">>,
                subject_lower, body_lower)

\* Variants of the cascade with one plausible slip each.
\* The final return is missing: the function falls off its end.
_mock_categorize_no_default(e) ==
    LET subject_lower == lower(e.subject)
        body_lower    == lower(e.body)
        sender_lower  == lower(e.sender)
    IN  IF is_spam(subject_lower, body_lower) THEN "Spam"
        ELSE IF is_strong_newsletter(body_lower) THEN "Newsletter"
        ELSE IF is_important(subject_lower, sender_lower) THEN "Important"
        ELSE IF is_todo(subject_lower, body_lower) THEN "To-Do"
        ELSE IF \/ is_newsletter_content(subject_lower, body_lower)
                \/ is_newsletter_sender(sender_lower) THEN "Newsletter"
        ELSE IF is_policy_update(subject_lower, body_lower) THEN "Newsletter"
        ELSE "None"

\* The Important check is made before the spam check.
_mock_categorize_important_first(e) ==
    LET subject_lower == lower(e.subject)
        body_lower    == lower(e.body)
        sender_lower  == lower(e.sender)
    IN  IF is_important(subject_lower, sender_lower) THEN "Important"
        ELSE IF is_spam(subject_lower, body_lower) THEN "Spam"
        ELSE IF is_strong_newsletter(body_lower) THEN "Newsletter"
        ELSE IF is_todo(subject_lower, body_lower) THEN "To-Do"
        ELSE IF \/ is_newsletter_content(subject_lower, body_lower)
                \/ is_newsletter_sender(sender_lower) THEN "Newsletter"
        ELSE IF is_policy_update(subject_lower, body_lower) THEN "Newsletter"
        ELSE "Newsletter"

\* The strong newsletter signals are not checked ahead of the other rules.
_mock_categorize_no_strong_signal(e) ==
    LET subject_lower == lower(e.subject)
        body_lower    == lower(e.body)
        sender_lower  == lower(e.sender)
    IN  IF is_spam(subject_lower, body_lower) THEN "Spam"
        ELSE IF is_important(subject_lower, sender_lower) THEN "Important"
        ELSE IF is_todo(subject_lower, body_lower) THEN "To-Do"
        ELSE IF \/ is_newsletter_content(subject_lower, body_lower)
                \/ is_newsletter_sender(sender_lower) THEN "Newsletter"
        ELSE IF is_policy_update(subject_lower, body_lower) THEN "Newsletter"
        ELSE "Newsletter"

\* The To-Do checks are made before the Important check.
_mock_categorize_todo_first(e) ==
    LET subject_lower == lower(e.subject)
        body_lower    == lower(e.body)
        sender_lower  == lower(e.sender)
    IN  IF is_spam(subject_lower, body_lower) THEN "Spam"
        ELSE IF is_strong_newsletter(body_lower) THEN "Newsletter"
        ELSE IF is_todo(subject_lower, body_lower) THEN "To-Do"
        ELSE IF is_important(subject_lower, sender_lower) THEN "Important"
        ELSE IF \/ is_newsletter_content(subject_lower, body_lower)
                \/ is_newsletter_sender(sender_lower) THEN "Newsletter"
        ELSE IF is_policy_update(subject_lower, body_lower) THEN "Newsletter"
        ELSE "Newsletter"

\* The general newsletter signals decide where they are computed, before
\* the To-Do checks.
_mock_categorize_newsletter_early(e) ==
    LET subject_lower == lower(e.subject)
        body_lower    == lower(e.body)
        sender_lower  == lower(e.sender)
    IN  IF is_spam(subject_lower, body_lower) THEN "Spam"
        ELSE IF is_strong_newsletter(body_lower) THEN "Newsletter"
        ELSE IF is_important(subject_lower, sender_lower) THEN "Important"
        ELSE IF \/ is_newsletter_content(subject_lower, body_lower)
                \/ is_newsletter_sender(sender_lower) THEN "Newsletter"
        ELSE IF is_todo(subject_lower, body_lower) THEN "To-Do"
        ELSE IF is_policy_update(subject_lower, body_lower) THEN "Newsletter"
        ELSE "Newsletter"

_mock_categorize(e) ==
    LET subject_lower == lower(e.subject)
        body_lower    == lower(e.body)
        sender_lower  == lower(e.sender)
    IN  IF is_spam(subject_lower, body_lower) THEN "Spam"
        ELSE IF is_strong_newsletter(body_lower) THEN "Newsletter"
        ELSE IF is_important(subject_lower, sender_lower) THEN "Important"
        ELSE IF is_todo(subject_lower, body_lower) THEN "To-Do"
        ELSE IF \/ is_newsletter_content(subject_lower, body_lower)
                \/ is_newsletter_sender(sender_lower) THEN "Newsletter"
        ELSE IF is_policy_update(subject_lower, body_lower) THEN "Newsletter"
        ELSE "Newsletter"

(***************************************************************************)
(* Action extractor: _mock_extract_actions, five independent checks, each  *)
(* appending at most one ActionItem, in the order of the code.             *)
(***************************************************************************)
ActionItem(task, deadline) == [task |-> task, deadline |-> deadline]

confirm_action(e, subject_lower, body_lower) ==
    IF Contains("confirm", subject_lower) \/ Contains("confirm", body_lower)
    THEN << ActionItem("Confirm attendance/action for: " \o e.subject,
                       IF Contains("eod", body_lower) THEN "EOD today"
                                                      ELSE "ASAP") >>
    ELSE << >>

complete_action(e, subject_lower, body_lower) ==
    IF Contains("update", subject_lower) \/ Contains("complete", body_lower)
    THEN << ActionItem("Complete task: " \o e.subject,
                       IF Contains("wednesday", body_lower)
                       THEN "Wednesday morning" ELSE "None") >>
    ELSE << >>

review_action(e, subject_lower, body_lower) ==
    IF Contains("review", subject_lower) \/ Contains("review", body_lower)
    THEN << ActionItem("Review and respond to: " \o e.subject, "None") >>
    ELSE << >>

meeting_action(e, subject_lower, body_lower) ==
    IF Contains("meeting", subject_lower) \/ Contains("invitation", subject_lower)
    THEN << ActionItem("Respond to meeting invitation: " \o e.subject, "ASAP") >>
    ELSE << >>

payment_action(e, subject_lower, body_lower) ==
    IF Contains("invoice", subject_lower) \/ Contains("payment", body_lower)
    THEN << ActionItem("Process payment for: " \o e.subject,
                       IF Contains("friday", body_lower) THEN "Friday"
                                                         ELSE "Next week") >>
    ELSE << >>

\* Variants of the extractor with one plausible slip each.
\* The review check is an elif of the complete check.
_mock_extract_actions_elif(e) ==
    LET subject_lower == lower(e.subject)
        body_lower    == lower(e.body)
        a0 == << >>
        a1 == a0 \o confirm_action(e, subject_lower, body_lower)
        a2 == a1 \o complete_action(e, subject_lower, body_lower)
        a3 == IF Len(a2) > Len(a1) THEN a2
              ELSE a2 \o review_action(e, subject_lower, body_lower)
        a4 == a3 \o meeting_action(e, subject_lower, body_lower)
        a5 == a4 \o payment_action(e, subject_lower, body_lower)
    IN  a5

\* The meeting check is made before the review check.
_mock_extract_actions_meeting_before_review(e) ==
    LET subject_lower == lower(e.subject)
        body_lower    == lower(e.body)
        a0 == << >>
        a1 == a0 \o confirm_action(e, subject_lower, body_lower)
        a2 == a1 \o complete_action(e, subject_lower, body_lower)
        a3 == a2 \o meeting_action(e, subject_lower, body_lower)
        a4 == a3 \o review_action(e, subject_lower, body_lower)
        a5 == a4 \o payment_action(e, subject_lower, body_lower)
    IN  a5

_mock_extract_actions(e) ==
    LET subject_lower == lower(e.subject)
        body_lower    == lower(e.body)
        a0 == << >>
        a1 == a0 \o confirm_action(e, subject_lower, body_lower)
        a2 == a1 \o complete_action(e, subject_lower, body_lower)
        a3 == a2 \o review_action(e, subject_lower, body_lower)
        a4 == a3 \o meeting_action(e, subject_lower, body_lower)
        a5 == a4 \o payment_action(e, subject_lower, body_lower)
    IN  a5

(***************************************************************************)
(* Reply drafter: _mock_draft_reply, first match wins.                     *)
(***************************************************************************)
MeetingReply ==
    "Thank you for the invitation. Could you please send a brief agenda or purpose for this meeting? I'd like to come prepared. Looking forward to it!"

TaskReply ==
    "Thank you for reaching out. I've received your request and will look into this. I'll get back to you with an update soon."

QuestionReply ==
    "Thanks for your question. Let me review this and get back to you with a detailed response shortly."

NoReply == ""

GenericReply ==
    "Thank you for your email. I've received it and will respond accordingly."

draft_meeting_words ==
    << "meeting", "invitation", "schedule", "call", "sync", "brainstorm" >>

draft_task_words == << "task request", "update", "review" >>

draft_suppress_words ==
    << "newsletter", "digest", "unsubscribe", "pre-approved" >>

\* Variants of the drafter with one plausible slip each.
\* The newsletter/spam suppression is checked first.
_mock_draft_reply_suppress_first(e) ==
    LET subject_lower == lower(e.subject)
        body_lower    == lower(e.body)
    IN  IF AnyInEither(draft_suppress_words, subject_lower, body_lower)
        THEN NoReply
        ELSE IF AnyInEither(draft_meeting_words, subject_lower, body_lower)
        THEN MeetingReply
        ELSE IF AnyIn(draft_task_words, subject_lower)
        THEN TaskReply
        ELSE IF Contains("question", subject_lower) \/ Contains("?", body_lower)
        THEN QuestionReply
        ELSE GenericReply

\* The newsletter/spam suppression is missing.
_mock_draft_reply_no_suppress(e) ==
    LET subject_lower == lower(e.subject)
        body_lower    == lower(e.body)
    IN  IF AnyInEither(draft_meeting_words, subject_lower, body_lower)
        THEN MeetingReply
        ELSE IF AnyIn(draft_task_words, subject_lower)
        THEN TaskReply
        ELSE IF Contains("question", subject_lower) \/ Contains("?", body_lower)
        THEN QuestionReply
        ELSE GenericReply

\* The default is "no reply" instead of the generic acknowledgment.
_mock_draft_reply_default_empty(e) ==
    LET subject_lower == lower(e.subject)
        body_lower    == lower(e.body)
    IN  IF AnyInEither(draft_meeting_words, subject_lower, body_lower)
        THEN MeetingReply
        ELSE IF AnyIn(draft_task_words, subject_lower)
        THEN TaskReply
        ELSE IF Contains("question", subject_lower) \/ Contains("?", body_lower)
        THEN QuestionReply
        ELSE NoReply

_mock_draft_reply(e) ==
    LET subject_lower == lower(e.subject)
        body_lower    == lower(e.body)
    IN  IF AnyInEither(draft_meeting_words, subject_lower, body_lower)
        THEN MeetingReply
        ELSE IF AnyIn(draft_task_words, subject_lower)
        THEN TaskReply
        ELSE IF Contains("question", subject_lower) \/ Contains("?", body_lower)
        THEN QuestionReply
        ELSE IF AnyInEither(draft_suppress_words, subject_lower, body_lower)
        THEN NoReply
        ELSE GenericReply

(***************************************************************************)
(* Input space: an EmailRecord is drawn from a bounded set of subjects,    *)
(* senders and bodies.  A body is the join of at most MaxBodyParts phrases *)
(* of BodyPhrases, in the order of that list, separated by a blank.        *)
(***************************************************************************)
Subjects ==
    { "Hello", "URGENT: Budget Review", "Meeting update", "Team meeting",
      "Follow-up question on invoice", "Weekly Newsletter" }

Senders ==
    { "bob@co.com", "Director@co.com", "noreply@co.com", "CEO@co.com" }

BodyPhrases ==
    << "Please review", "please confirm by EOD", "You have won a prize",
       "Unsubscribe here", "weekly digest", "can we meet?",
       "schedule a call", "Review the payment due Friday",
       "complete it Wednesday",
       "asap", "see you soon" >>

RECURSIVE JoinFrom(_, _)
JoinFrom(S, i) ==
    IF i > Len(BodyPhrases) THEN ""
    ELSE LET rest == JoinFrom(S, i + 1)
         IN  IF i \notin S THEN rest
             ELSE IF rest = "" THEN BodyPhrases[i]
             ELSE BodyPhrases[i] \o " " \o rest

Bodies ==
    { JoinFrom(S, 1) :
        S \in { T \in SUBSET (1..Len(BodyPhrases)) :
                    Cardinality(T) <= MaxBodyParts } }

\* EmailRecord (src/core/models.py): the raw fields the fallback engine reads.
EmailRecord(id, sender, subject, body) ==
    [id |-> id, sender |-> sender, subject |-> subject, body |-> body]

Categories == {"Important", "To-Do", "Newsletter", "Spam"}

(***************************************************************************)
(* State machine: one email is drawn, then the three fallback functions    *)
(* are applied to it in the order of the ingestion pipeline (categorize,   *)
(* extract, draft); each return value is recorded.  pc names the next step.*)
(***************************************************************************)
\* The outcome of a call: the function called, its string argument (query or
\* prompt name) and email id argument, how its LLM calls went ("none" when
\* it makes none), whether it returned or raised, and the returned value
\* (or the exception) as text.
Outcome(op, arg, email_id, llm, status, val) ==
    [op |-> op, arg |-> arg, email_id |-> email_id, llm |-> llm,
     status |-> status, val |-> val]

\* No application is running: the fallback functions are applied on their own.
StoreIdle ==
    /\ _emails = << >>
    /\ _prompts = << >>
    /\ source = << >>
    /\ LLM = "None"
    /\ app = "none"
    /\ selected_email_id = 0 - 1
    /\ chat_history = << >>
    /\ ret = Outcome("none", "", 0 - 1, "none", "returned", "")

FallbackInit ==
    /\ \E sj \in Subjects, sn \in Senders, b \in Bodies :
           email = EmailRecord(1, sn, sj, b)
    /\ pc = "categorize"
    /\ ret_category = ""
    /\ ret_actions = << >>
    /\ ret_draft = ""
    /\ StoreIdle

\* A categorize step that lower-cases the subject of the record it is given
\* in place before classifying it.
Categorize_lowers_subject ==
    /\ pc = "categorize"
    /\ ret_category' = _mock_categorize(email)
    /\ email' = [email EXCEPT !.subject = lower(email.subject)]
    /\ pc' = "extract"
    /\ UNCHANGED <<ret_actions, ret_draft>>
    /\ UNCHANGED storeVars

Categorize ==
    /\ pc = "categorize"
    /\ ret_category' = _mock_categorize(email)
    /\ pc' = "extract"
    /\ UNCHANGED <<email, ret_actions, ret_draft>>
    /\ UNCHANGED storeVars

ExtractActions ==
    /\ pc = "extract"
    /\ ret_actions' = _mock_extract_actions(email)
    /\ pc' = "draft"
    /\ UNCHANGED <<email, ret_category, ret_draft>>
    /\ UNCHANGED storeVars

DraftReply ==
    /\ pc = "draft"
    /\ ret_draft' = _mock_draft_reply(email)
    /\ pc' = "done"
    /\ UNCHANGED <<email, ret_category, ret_actions>>
    /\ UNCHANGED storeVars

FallbackNext == Categorize \/ ExtractActions \/ DraftReply

FallbackSpec == FallbackInit /\ [][FallbackNext]_vars

\* Lower-cased views of the drawn email, as each function computes them.
SubjectLower == lower(email.subject)
BodyLower == lower(email.body)
SenderLower == lower(email.sender)

(***************************************************************************)
(* Properties of the classifier.                                           *)
(***************************************************************************)
\* _mock_categorize has just returned ret_category for the drawn email.
Categorized == pc = "extract"

SpamPhrase == is_spam(SubjectLower, BodyLower)

StrongNewsletterSignal == is_strong_newsletter(BodyLower)

ImportantMarker == is_important(SubjectLower, SenderLower)

ToDoRule == is_todo(SubjectLower, BodyLower)

GeneralNewsletterSignal ==
    \/ is_newsletter_content(SubjectLower, BodyLower)
    \/ is_newsletter_sender(SenderLower)

NoClassifierRuleMatches ==
    /\ ~SpamPhrase
    /\ ~StrongNewsletterSignal
    /\ ~ImportantMarker
    /\ ~ToDoRule
    /\ ~GeneralNewsletterSignal
    /\ ~is_policy_update(SubjectLower, BodyLower)

\* C1: the fallback classifier always returns one of Important, To-Do,
\* Newsletter, Spam, and returns Newsletter when no rule of the cascade
\* matches.
C1_ClassifierTotal ==
    Categorized =>
        /\ ret_category \in Categories
        /\ NoClassifierRuleMatches => ret_category = "Newsletter"

C1_Witness == Categorized /\ NoClassifierRuleMatches

\* C2: an email whose lower-cased subject or body contains a spam-indicator
\* phrase is classified Spam, whatever else it contains.
C2_SpamFirst == (Categorized /\ SpamPhrase) => ret_category = "Spam"

C2_Witness ==
    /\ Categorized
    /\ SpamPhrase
    /\ Contains("director", SenderLower)
    /\ Contains("urgent", SubjectLower)
    /\ StrongNewsletterSignal

\* C3 (as stated): every email whose body contains 'unsubscribe' is
\* classified Newsletter.
C3_UnsubscribeAlwaysNewsletter ==
    (Categorized /\ Contains("unsubscribe", BodyLower))
        => ret_category = "Newsletter"

\* C3 (amended): every email whose body contains 'unsubscribe' and whose
\* subject and body contain no spam-indicator phrase is classified
\* Newsletter, even if the body also contains 'review'.
C3_UnsubscribeNewsletterUnlessSpam ==
    (Categorized /\ Contains("unsubscribe", BodyLower) /\ ~SpamPhrase)
        => ret_category = "Newsletter"

C3_Witness ==
    /\ Categorized
    /\ Contains("unsubscribe", BodyLower)
    /\ Contains("review", BodyLower)
    /\ ~SpamPhrase
    /\ ret_category = "Newsletter"

\* C4: with no spam phrase and no strong newsletter signal, 'urgent' in the
\* subject or 'director'/'ceo' in the sender gives Important, even when the
\* body holds a To-Do phrase and an urgency marker.
C4_ImportantBeforeToDo ==
    (Categorized /\ ~SpamPhrase /\ ~StrongNewsletterSignal /\ ImportantMarker)
        => ret_category = "Important"

C4_Witness ==
    /\ Categorized
    /\ ~SpamPhrase
    /\ ~StrongNewsletterSignal
    /\ ImportantMarker
    /\ Contains("please confirm", BodyLower)
    /\ Contains("by eod", BodyLower)
    /\ ret_category = "Important"

\* C5: with no spam phrase, no strong newsletter signal and no Important
\* marker, a match of any To-Do rule gives To-Do even when a general
\* newsletter phrase or a newsletter sender prefix also matches.
C5_ToDoBeforeGeneralNewsletter ==
    (Categorized /\ ~SpamPhrase /\ ~StrongNewsletterSignal /\ ~ImportantMarker
        /\ ToDoRule)
        => ret_category = "To-Do"

C5_Witness ==
    /\ Categorized
    /\ ~SpamPhrase
    /\ ~StrongNewsletterSignal
    /\ ~ImportantMarker
    /\ ToDoRule
    /\ Contains("digest", BodyLower)
    /\ Contains("noreply@", SenderLower)
    /\ ret_category = "To-Do"

(***************************************************************************)
(* Properties of the action extractor.                                     *)
(***************************************************************************)
\* _mock_extract_actions has just returned ret_actions for the drawn email.
Extracted == pc = "draft"

Rules == 1..5

\* The task text of each rule, in the order the rules are declared.
RuleTask ==
    << "Confirm attendance/action for: " \o email.subject,
       "Complete task: " \o email.subject,
       "Review and respond to: " \o email.subject,
       "Respond to meeting invitation: " \o email.subject,
       "Process payment for: " \o email.subject >>

\* The condition of each rule on the lower-cased subject and body.
RuleHolds(r) ==
    CASE r = 1 -> Contains("confirm", SubjectLower) \/ Contains("confirm", BodyLower)
      [] r = 2 -> Contains("update", SubjectLower) \/ Contains("complete", BodyLower)
      [] r = 3 -> Contains("review", SubjectLower) \/ Contains("review", BodyLower)
      [] r = 4 -> Contains("meeting", SubjectLower) \/ Contains("invitation", SubjectLower)
      [] r = 5 -> Contains("invoice", SubjectLower) \/ Contains("payment", BodyLower)

ItemsOfRule(r) == { i \in DOMAIN ret_actions : ret_actions[i].task = RuleTask[r] }

\* C6: the extractor output holds exactly one item for each of the five
\* rules whose condition holds and none for a rule whose condition does not
\* hold, in rule declaration order; so at most five items.
C6_ExtractorIndependentRules ==
    Extracted =>
        /\ \A i \in DOMAIN ret_actions : \E r \in Rules : i \in ItemsOfRule(r)
        /\ \A r \in Rules :
               Cardinality(ItemsOfRule(r)) = IF RuleHolds(r) THEN 1 ELSE 0
        /\ \A r1, r2 \in Rules :
               \A i \in ItemsOfRule(r1), j \in ItemsOfRule(r2) :
                   i < j => r1 < r2
        /\ Len(ret_actions) <= 5

C6_Witness ==
    /\ Extracted
    /\ \A r \in Rules : RuleHolds(r)
    /\ Len(ret_actions) = 5

ConfirmReviewMeeting ==
    /\ Contains("confirm", BodyLower)
    /\ Contains("review", BodyLower)
    /\ Contains("meeting", SubjectLower)

Tasks == [i \in DOMAIN ret_actions |-> ret_actions[i].task]

\* C7 (as stated): body with 'confirm' and 'review' and subject with
\* 'meeting' yields three action items: confirm, review, meeting-response.
C7_ExactlyThreeItems ==
    (Extracted /\ ConfirmReviewMeeting)
        => Tasks = << RuleTask[1], RuleTask[3], RuleTask[4] >>

\* C7 (amended): such an email yields the confirm, review and
\* meeting-response items in that relative order, and exactly these three
\* when neither the complete rule nor the payment rule also holds.
C7_ThreeItemsInOrder ==
    (Extracted /\ ConfirmReviewMeeting) =>
        /\ \E i, j, k \in DOMAIN ret_actions :
               /\ i < j /\ j < k
               /\ Tasks[i] = RuleTask[1]
               /\ Tasks[j] = RuleTask[3]
               /\ Tasks[k] = RuleTask[4]
        /\ (~RuleHolds(2) /\ ~RuleHolds(5))
               => Tasks = << RuleTask[1], RuleTask[3], RuleTask[4] >>

C7_Witness ==
    /\ Extracted
    /\ ConfirmReviewMeeting
    /\ ~RuleHolds(2) /\ ~RuleHolds(5)
    /\ Len(ret_actions) = 3

(***************************************************************************)
(* Properties of the reply drafter.                                        *)
(***************************************************************************)
\* _mock_draft_reply has just returned ret_draft for the drawn email.
Drafted == pc = "done"

MeetingKeyword == AnyInEither(draft_meeting_words, SubjectLower, BodyLower)

TaskKeyword == AnyIn(draft_task_words, SubjectLower)

QuestionMarker == Contains("question", SubjectLower) \/ Contains("?", BodyLower)

SuppressMarker == AnyInEither(draft_suppress_words, SubjectLower, BodyLower)

\* C8: the drafter returns one of the five fixed texts, chosen by the first
\* matching rule in the order meeting, task, question, newsletter/spam
\* marker, default; a meeting keyword wins over a newsletter/spam marker.
C8_DrafterFirstMatch ==
    Drafted =>
        LET m == MeetingKeyword
            t == TaskKeyword
            q == QuestionMarker
            n == SuppressMarker
        IN  /\ ret_draft \in {MeetingReply, TaskReply, QuestionReply, NoReply,
                              GenericReply}
            /\ m => ret_draft = MeetingReply
            /\ (~m /\ t) => ret_draft = TaskReply
            /\ (~m /\ ~t /\ q) => ret_draft = QuestionReply
            /\ (~m /\ ~t /\ ~q /\ n) => ret_draft = NoReply
            /\ (~m /\ ~t /\ ~q /\ ~n) => ret_draft = GenericReply
            /\ (m /\ n) => ret_draft = MeetingReply

C8_Witness ==
    /\ Drafted
    /\ MeetingKeyword
    /\ SuppressMarker
    /\ ret_draft = MeetingReply

\* C9 (as stated): any email matching a newsletter/spam marker gets the
\* empty draft reply, even if it also matches a meeting keyword.
C9_MarkerAlwaysSuppresses == (Drafted /\ SuppressMarker) => ret_draft = ""

\* C9 (amended): an email matching a newsletter/spam marker gets the empty
\* draft reply provided it matches no meeting keyword, no task keyword in
\* the subject and no question marker.
C9_MarkerSuppressesUnlessEarlierRule ==
    (Drafted /\ SuppressMarker /\ ~MeetingKeyword /\ ~TaskKeyword
        /\ ~QuestionMarker)
        => ret_draft = ""

C9_Witness ==
    /\ Drafted
    /\ SuppressMarker
    /\ ~MeetingKeyword /\ ~TaskKeyword /\ ~QuestionMarker
    /\ ret_draft = ""

(***************************************************************************)
(* An email with none of the tracked keywords.                             *)
(***************************************************************************)
TrackedKeywords ==
    spam_indicators \o newsletter_indicators \o newsletter_senders
    \o direct_action_words \o meeting_requests \o question_requests
    \o << "informational", "unsubscribe", "view in browser", "we've been",
          "excited to share", "last month", "updates",
          "urgent", "director", "ceo",
          "need help", "follow-up", "question about", "help with",
          "confirm", "update", "review", "complete",
          "please", "by eod", "deadline", "asap", "by today", "by tomorrow",
          "policy change", "status update", "no action", "company-wide",
          "fyi", "for your information",
          "eod", "wednesday", "meeting", "invitation", "invoice", "payment",
          "friday", "question", "?" >>
    \o draft_meeting_words \o draft_task_words \o draft_suppress_words

NoneIn(words, hay) == \A i \in DOMAIN words : ~Contains(words[i], hay)

NoTrackedKeyword ==
    /\ NoneIn(TrackedKeywords, SubjectLower)
    /\ NoneIn(TrackedKeywords, BodyLower)
    /\ NoneIn(TrackedKeywords, SenderLower)

\* All three functions have returned; the recorded values are never rewritten.
AllCalled == pc = "done"

\* C10: an email with none of the tracked keywords is classified
\* Newsletter, yields no action item and gets the generic acknowledgment
\* reply, which is not the empty string.
C10_NoKeywordDefaults ==
    (AllCalled /\ NoTrackedKeyword) =>
        /\ ret_category = "Newsletter"
        /\ ret_actions = << >>
        /\ ret_draft = GenericReply
        /\ Len(ret_draft) > 0

C10_Witness ==
    /\ AllCalled
    /\ NoTrackedKeyword
    /\ Len(email.body) > 0

(***************************************************************************)
(* The record store: PromptManager (src/core/prompt_manager.py) and the    *)
(* pydantic models (src/core/models.py).                                   *)
(*                                                                         *)
(* A Python dict is a record wrapped in a field "dict", so that            *)
(* isinstance(x, dict) and isinstance(x, ActionItem) can tell the two      *)
(* apart; None as an email id is NoneId; an optional argument is a         *)
(* sequence of length at most one (<< >> is None).                         *)
(***************************************************************************)
NoneId == 0 - 1

None == << >>

Some(x) == << x >>

Dict(fields) == [dict |-> fields]

IsDict(x) == "dict" \in DOMAIN x

IsActionItem(x) == DOMAIN x = {"task", "deadline"}

\* ActionItem(**item): both fields are required.
ActionItemValid(d) == {"task", "deadline"} \subseteq DOMAIN d.dict

ActionItemFromDict(d) == ActionItem(d.dict.task, d.dict.deadline)

\* item.dict() of an ActionItem.
ActionItemDict(item) == Dict([task |-> item.task, deadline |-> item.deadline])

\* The action_items of a raw inbox item ('action_items' in item and
\* item['action_items']), else the empty list of the field's default.
RawActionItems(item) ==
    IF "action_items" \in DOMAIN item THEN item.action_items ELSE << >>

\* A raw item passes ActionItem(**ai) for each of its dicts and
\* EmailRecord(**item) for its required fields.
ItemValid(item) ==
    /\ \A i \in DOMAIN RawActionItems(item) :
           IsDict(RawActionItems(item)[i])
               => ActionItemValid(RawActionItems(item)[i])
    /\ {"id", "sender", "subject", "timestamp", "body"} \subseteq DOMAIN item

\* EmailRecord(**item), with the defaults of the optional fields.
StoredEmailRecord(item) ==
    [ id           |-> item.id,
      sender       |-> item.sender,
      subject      |-> item.subject,
      timestamp    |-> item.timestamp,
      body         |-> item.body,
      is_read      |-> IF "is_read" \in DOMAIN item THEN item.is_read ELSE FALSE,
      category     |-> IF "category" \in DOMAIN item THEN item.category ELSE "",
      action_items |-> [ i \in DOMAIN RawActionItems(item) |->
                           IF IsDict(RawActionItems(item)[i])
                           THEN ActionItemFromDict(RawActionItems(item)[i])
                           ELSE RawActionItems(item)[i] ],
      draft_reply  |-> IF "draft_reply" \in DOMAIN item THEN item.draft_reply
                                                       ELSE "" ]

\* The loop of _load_emails: validated_emails grows until an item fails.
RECURSIVE validate_emails(_, _, _)
validate_emails(raw_emails, i, validated_emails) ==
    IF i > Len(raw_emails)
    THEN [raised |-> FALSE, validated_emails |-> validated_emails]
    ELSE IF ~ItemValid(raw_emails[i])
    THEN [raised |-> TRUE, validated_emails |-> validated_emails]
    ELSE validate_emails(raw_emails, i + 1,
             Append(validated_emails, StoredEmailRecord(raw_emails[i])))

\* A _load_emails that keeps the records validated before the failure.
_load_emails_partial(raw_emails, emails) ==
    LET r == validate_emails(raw_emails, 1, << >>)
    IN  [raised |-> r.raised, emails |-> r.validated_emails]

\* _load_emails: self._emails is assigned only after every item validated.
_load_emails(raw_emails, emails) ==
    LET r == validate_emails(raw_emails, 1, << >>)
    IN  IF r.raised THEN [raised |-> TRUE, emails |-> emails]
        ELSE [raised |-> FALSE, emails |-> r.validated_emails]

\* get_email_by_id: the first record with that id, as its position in
\* _emails (a reference to the stored object); 0 is None.
get_email_by_id(emails, email_id) ==
    IF \E i \in DOMAIN emails : emails[i].id = email_id
    THEN CHOOSE i \in DOMAIN emails :
             /\ emails[i].id = email_id
             /\ \A j \in DOMAIN emails : emails[j].id = email_id => i <= j
    ELSE 0

\* A loop of save_email_state that inserts each item at the front.
RECURSIVE validated_actions_reversed(_)
validated_actions_reversed(action_items) ==
    IF Len(action_items) = 0 THEN [raised |-> FALSE, items |-> << >>]
    ELSE LET item == Head(action_items)
             rest == validated_actions_reversed(Tail(action_items))
         IN  IF IsDict(item) /\ ~ActionItemValid(item)
             THEN [raised |-> TRUE, items |-> << >>]
             ELSE IF rest.raised THEN rest
             ELSE IF IsDict(item)
             THEN [raised |-> FALSE,
                   items |-> rest.items \o <<ActionItemFromDict(item)>>]
             ELSE IF IsActionItem(item)
             THEN [raised |-> FALSE, items |-> rest.items \o <<item>>]
             ELSE rest

\* The loop of save_email_state over action_items: dicts are converted,
\* ActionItems kept, anything else dropped; a dict that fails validation
\* raises.
RECURSIVE validated_actions(_)
validated_actions(action_items) ==
    IF Len(action_items) = 0 THEN [raised |-> FALSE, items |-> << >>]
    ELSE LET item == Head(action_items)
             rest == validated_actions(Tail(action_items))
         IN  IF IsDict(item) /\ ~ActionItemValid(item)
             THEN [raised |-> TRUE, items |-> << >>]
             ELSE IF rest.raised THEN rest
             ELSE IF IsDict(item)
             THEN [raised |-> FALSE,
                   items |-> <<ActionItemFromDict(item)>> \o rest.items]
             ELSE IF IsActionItem(item)
             THEN [raised |-> FALSE, items |-> <<item>> \o rest.items]
             ELSE rest

\* A save_email_state that writes to the last record looked at when no
\* record has the id.
save_email_state_last_record(emails, email_id, category, action_items, draft_reply) ==
    LET i == IF get_email_by_id(emails, email_id) = 0
             THEN Len(emails) ELSE get_email_by_id(emails, email_id)
    IN  IF i = 0 THEN [emails |-> emails, raised |-> FALSE, val |-> "False"]
        ELSE
          LET e1 == IF category # None
                    THEN [emails[i] EXCEPT !.category = category[1]]
                    ELSE emails[i]
              va == IF action_items # None
                    THEN validated_actions(action_items[1])
                    ELSE [raised |-> FALSE, items |-> e1.action_items]
              e2 == [e1 EXCEPT !.action_items = va.items]
              e3 == IF draft_reply # None
                    THEN [e2 EXCEPT !.draft_reply = draft_reply[1]]
                    ELSE e2
          IN  IF va.raised
              THEN [emails |-> [emails EXCEPT ![i] = e1], raised |-> TRUE,
                    val |-> "ValidationError"]
              ELSE [emails |-> [emails EXCEPT ![i] = e3], raised |-> FALSE,
                    val |-> "True"]

\* save_email_state: category, action_items and draft_reply are optional.
\* Returns the new list, the returned value and whether it raised (the
\* category is already assigned when the conversion of an item raises).
save_email_state(emails, email_id, category, action_items, draft_reply) ==
    LET i == get_email_by_id(emails, email_id)
    IN  IF i = 0 THEN [emails |-> emails, raised |-> FALSE, val |-> "False"]
        ELSE
          LET e1 == IF category # None
                    THEN [emails[i] EXCEPT !.category = category[1]]
                    ELSE emails[i]
              va == IF action_items # None
                    THEN validated_actions(action_items[1])
                    ELSE [raised |-> FALSE, items |-> e1.action_items]
              e2 == [e1 EXCEPT !.action_items = va.items]
              e3 == IF draft_reply # None
                    THEN [e2 EXCEPT !.draft_reply = draft_reply[1]]
                    ELSE e2
          IN  IF va.raised
              THEN [emails |-> [emails EXCEPT ![i] = e1], raised |-> TRUE,
                    val |-> "ValidationError"]
              ELSE [emails |-> [emails EXCEPT ![i] = e3], raised |-> FALSE,
                    val |-> "True"]

(***************************************************************************)
(* The email source (assets/mock_inbox.json, read by _load_emails) as a    *)
(* list of raw items, and the inboxes it may hold.                         *)
(***************************************************************************)
RawItem(id, sender, subject, body) ==
    [id |-> id, sender |-> sender, subject |-> subject,
     timestamp |-> "2025-11-20T09:00:00", body |-> body]

WithActionItems(item, action_items) ==
    [k \in DOMAIN item \cup {"action_items"} |->
        IF k = "action_items" THEN action_items ELSE item[k]]

BudgetMail ==
    RawItem(1, "alice@co.com", "URGENT: Budget Review", "please confirm by EOD")

MeetingMail ==
    WithActionItems(RawItem(2, "bob@co.com", "Team meeting", "can we meet?"),
        << Dict([task |-> "Prepare slides", deadline |-> "Monday"]) >>)

\* A second item carrying the id of BudgetMail (ids are not checked).
PrizeMail == RawItem(1, "promo@co.com", "Hello", "You have won a prize")

\* An item whose stored action item lacks its deadline.
MalformedMail ==
    WithActionItems(RawItem(3, "dave@co.com", "Hello", "see you soon"),
        << Dict([task |-> "Call back"]) >>)

Inboxes ==
    { <<BudgetMail, MeetingMail>>,
      <<MeetingMail, BudgetMail>>,
      <<PrizeMail, BudgetMail>>,
      <<MeetingMail, MalformedMail>> }

\* Email ids passed to the operations: the ids of the inboxes' valid
\* items and one id no item has.
UnknownId == 9

EmailIds == {1, 2, UnknownId}

(***************************************************************************)
(* The prompt configuration (assets/default_prompts.json, read by          *)
(* _load_prompts): three named PromptTemplates.                            *)
(***************************************************************************)
PromptNames ==
    {"Categorization_Prompt", "Action_Extraction_Prompt", "Auto_Reply_Prompt"}

PromptTemplate(name, description, template, output_format) ==
    [name |-> name, description |-> description, template |-> template,
     output_format |-> output_format, json_schema |-> None]

DefaultPrompts ==
    [ Categorization_Prompt |->
          PromptTemplate("Categorization", "Categorizes emails",
                         "Categorize this email.", "text"),
      Action_Extraction_Prompt |->
          PromptTemplate("Action Extraction", "Extracts tasks",
                         "Extract the tasks.", "json"),
      Auto_Reply_Prompt |->
          PromptTemplate("Auto Reply", "Drafts replies",
                         "Draft a reply.", "text") ]

\* config = get_prompt_config().dict(): a dict of dicts; the template of a
\* dict may hold any value, here None or a string (an optional).
PromptConfigDict(prompts) ==
    [ n \in PromptNames |->
        [prompts[n] EXCEPT !.template = Some(prompts[n].template)] ]

\* PromptConfiguration(**config) validates: every template is a string.
PromptConfigValid(config) == \A n \in PromptNames : config[n].template # None

PromptConfiguration(config) ==
    [ n \in PromptNames |-> [config[n] EXCEPT !.template = config[n].template[1]] ]

\* An update_prompt_template that writes the new text into every template.
update_prompt_template_all(prompts, prompt_name, new_template) ==
    LET config == PromptConfigDict(prompts)
    IN  IF prompt_name \in DOMAIN config
        THEN LET edited == [n \in PromptNames |->
                               [config[n] EXCEPT !.template = new_template]]
             IN  IF PromptConfigValid(edited)
                 THEN [prompts |-> PromptConfiguration(edited), val |-> "True"]
                 ELSE [prompts |-> prompts, val |-> "False"]
        ELSE [prompts |-> prompts, val |-> "False"]

\* update_prompt_template: the new configuration and the returned value.
update_prompt_template(prompts, prompt_name, new_template) ==
    LET config == PromptConfigDict(prompts)
    IN  IF prompt_name \in DOMAIN config
        THEN LET edited == [config EXCEPT ![prompt_name].template = new_template]
             IN  IF PromptConfigValid(edited)
                 THEN [prompts |-> PromptConfiguration(edited), val |-> "True"]
                 ELSE [prompts |-> prompts, val |-> "False"]
        ELSE [prompts |-> prompts, val |-> "False"]

(***************************************************************************)
(* The agent: EmailLLMAgent (src/core/llm_agent.py) with the LLM present   *)
(* or absent.  A call of the LLM chain either returns its answer ("ok")    *)
(* or raises ("raise").                                                    *)
(***************************************************************************)
LLMOutcomes == {"ok", "raise"}

\* The answers of the LLM chain to the four kinds of request.
LLMCategoryAnswer == " Category: Important\n"

LLMActionsAnswer ==
    [action_items |->
        << Dict([task |-> "Reply to sender", deadline |-> "Tomorrow"]) >>]

LLMDraftAnswer == "Dear sender, noted.\n"

LLMChatAnswer == " Here is my answer. "

Whitespace == {" ", "\n", "\t", "\r"}

\* str.strip(): leading and trailing whitespace removed.
RECURSIVE strip(_)
strip(s) ==
    IF Len(s) = 0 THEN s
    ELSE IF SubSeq(s, 1, 1) \in Whitespace THEN strip(SubSeq(s, 2, Len(s)))
    ELSE IF SubSeq(s, Len(s), Len(s)) \in Whitespace
    THEN strip(SubSeq(s, 1, Len(s) - 1))
    ELSE s

\* The fallback functions depend on the sender, subject and body only; their
\* results for the emails of the inboxes are computed once.
Mails == {BudgetMail, MeetingMail, PrizeMail, MalformedMail}

MailKey(e) == <<e.sender, e.subject, e.body>>

FallbackResults ==
    [ k \in {MailKey(m) : m \in Mails} |->
        LET e == EmailRecord(0, k[1], k[2], k[3])
        IN  [category     |-> _mock_categorize(e),
             action_items |-> _mock_extract_actions(e),
             draft_reply  |-> _mock_draft_reply(e)] ]

mock_categorize(e) ==
    IF MailKey(e) \in DOMAIN FallbackResults
    THEN FallbackResults[MailKey(e)].category ELSE _mock_categorize(e)

mock_extract_actions(e) ==
    IF MailKey(e) \in DOMAIN FallbackResults
    THEN FallbackResults[MailKey(e)].action_items ELSE _mock_extract_actions(e)

mock_draft_reply(e) ==
    IF MailKey(e) \in DOMAIN FallbackResults
    THEN FallbackResults[MailKey(e)].draft_reply ELSE _mock_draft_reply(e)

\* A categorize_email whose except branch returns no category.
categorize_email_no_fallback(e, llm, outcome) ==
    IF llm = "present"
    THEN IF outcome = "ok" THEN strip(LLMCategoryAnswer) ELSE ""
    ELSE mock_categorize(e)

categorize_email(e, llm, outcome) ==
    IF llm = "present"
    THEN IF outcome = "ok" THEN strip(LLMCategoryAnswer)
         ELSE mock_categorize(e)
    ELSE mock_categorize(e)

extract_action_items(e, llm, outcome) ==
    IF llm = "present"
    THEN LET result_list_of_dicts ==
                 IF "action_items" \in DOMAIN LLMActionsAnswer
                 THEN LLMActionsAnswer.action_items ELSE << >>
         IN  IF /\ outcome = "ok"
                /\ \A i \in DOMAIN result_list_of_dicts :
                       ActionItemValid(result_list_of_dicts[i])
             THEN [i \in DOMAIN result_list_of_dicts |->
                      ActionItemFromDict(result_list_of_dicts[i])]
             ELSE mock_extract_actions(e)
    ELSE mock_extract_actions(e)

draft_auto_reply(e, llm, outcome) ==
    IF llm = "present"
    THEN IF outcome = "ok" THEN strip(LLMDraftAnswer)
         ELSE mock_draft_reply(e)
    ELSE mock_draft_reply(e)

\* The outcomes of the three LLM calls of one ingestion: the service
\* answers all three or fails all three.
CallOutcomes ==
    { [categorize |-> o, extract |-> o, draft |-> o] : o \in LLMOutcomes }

\* Without an LLM no call is made and nothing is drawn.
NoCalls == [categorize |-> "none", extract |-> "none", draft |-> "none"]

OutcomesFor(llm) == IF llm = "present" THEN CallOutcomes ELSE {NoCalls}

\* A process_email_ingestion that computes its results from the first email
\* of the store instead of the email looked up.
process_email_ingestion_first_email(emails, email_id, llm, outcomes) ==
    LET i == get_email_by_id(emails, email_id)
    IN  IF i = 0 THEN [emails |-> emails, saved |-> FALSE]
        ELSE
          LET category == categorize_email(emails[1], llm, outcomes.categorize)
              action_items ==
                  extract_action_items(emails[1], llm, outcomes.extract)
              draft_reply == draft_auto_reply(emails[1], llm, outcomes.draft)
              saved == save_email_state(emails, email_id, Some(category),
                           Some([k \in DOMAIN action_items |->
                                    ActionItemDict(action_items[k])]),
                           Some(draft_reply))
          IN  [emails |-> saved.emails, saved |-> TRUE]

\* process_email_ingestion: the store after the call and whether the
\* results were saved.
process_email_ingestion(emails, email_id, llm, outcomes) ==
    LET i == get_email_by_id(emails, email_id)
    IN  IF i = 0 THEN [emails |-> emails, saved |-> FALSE]
        ELSE
          LET category == categorize_email(emails[i], llm, outcomes.categorize)
              action_items ==
                  extract_action_items(emails[i], llm, outcomes.extract)
              draft_reply == draft_auto_reply(emails[i], llm, outcomes.draft)
              saved == save_email_state(emails, email_id, Some(category),
                           Some([k \in DOMAIN action_items |->
                                    ActionItemDict(action_items[k])]),
                           Some(draft_reply))
          IN  [emails |-> saved.emails, saved |-> TRUE]

\* The loop of run_ingestion_pipeline over the list taken before the
\* reload: one process_email_ingestion per element, by id, from position k.
RECURSIVE ingest_each(_, _, _, _, _)
ingest_each(listed, k, emails, llm, outcomes) ==
    IF k > Len(listed) THEN emails
    ELSE ingest_each(listed, k + 1,
             process_email_ingestion(emails, listed[k].id, llm,
                                     outcomes[k]).emails,
             llm, outcomes)

\* A pass that puts the action items each record held before the pass in
\* front of the ones it extracts.
run_ingestion_pipeline_keeps_items(emails, raw_emails, llm, outcomes) ==
    LET loaded == _load_emails(raw_emails, emails)
        done == ingest_each(emails, 1, loaded.emails, llm, outcomes)
    IN  IF loaded.raised THEN [raised |-> TRUE, emails |-> emails]
        ELSE [raised |-> FALSE,
              emails |-> [i \in DOMAIN done |->
                            IF i \in DOMAIN emails
                            THEN [done[i] EXCEPT !.action_items =
                                     emails[i].action_items \o @]
                            ELSE done[i]]]

\* run_ingestion_pipeline: emails = get_emails(); _load_emails(); the loop.
run_ingestion_pipeline(emails, raw_emails, llm, outcomes) ==
    LET loaded == _load_emails(raw_emails, emails)
    IN  IF loaded.raised THEN [raised |-> TRUE, emails |-> emails]
        ELSE [raised |-> FALSE,
              emails |-> ingest_each(emails, 1, loaded.emails, llm, outcomes)]

(***************************************************************************)
(* handle_chat_query.                                                      *)
(***************************************************************************)
\* "\n".join(parts)
RECURSIVE join_lines(_)
join_lines(parts) ==
    IF Len(parts) = 0 THEN ""
    ELSE IF Len(parts) = 1 THEN parts[1]
    ELSE parts[1] \o "\n" \o join_lines(Tail(parts))

\* str(email_id) in an f-string.
IdText(email_id) == IF email_id = NoneId THEN "None" ELSE ToString(email_id)

NoTasksMessage == "No specific action items were extracted for this email."

ChatErrorMessage == "Sorry, I encountered an error while processing your request."

DraftResponse(draft) == "**Draft Generated:**\n\n" \o draft

\* Every stored item is an ActionItem (save_email_state and _load_emails
\* convert), so the isinstance(item, ActionItem) branch renders it.
TasksResponse(items) ==
    IF Len(items) > 0
    THEN "The extracted tasks from this email are:\n"
         \o join_lines([k \in DOMAIN items |->
                "- " \o items[k].task \o " (Deadline: " \o items[k].deadline
                \o ")"])
    ELSE NoTasksMessage

\* A filter that puts each later match in front of the earlier ones.
RECURSIVE filter_category_latest_first(_, _)
filter_category_latest_first(emails, target_category) ==
    IF Len(emails) = 0 THEN << >>
    ELSE IF Head(emails).category = target_category
    THEN filter_category_latest_first(Tail(emails), target_category)
         \o <<Head(emails)>>
    ELSE filter_category_latest_first(Tail(emails), target_category)

\* [e for e in get_emails() if e.category == target_category]
RECURSIVE filter_category(_, _)
filter_category(emails, target_category) ==
    IF Len(emails) = 0 THEN << >>
    ELSE IF Head(emails).category = target_category
    THEN <<Head(emails)>> \o filter_category(Tail(emails), target_category)
    ELSE filter_category(Tail(emails), target_category)

NoneFoundMessage(target_category) ==
    "No emails currently categorized as **" \o target_category \o "**."

FilterResponse(emails, target_category) ==
    LET filtered_emails == filter_category(emails, target_category)
    IN  IF Len(filtered_emails) > 0
        THEN "Found " \o ToString(Len(filtered_emails))
             \o " emails categorized as **" \o target_category \o "**:\n"
             \o join_lines([k \in DOMAIN filtered_emails |->
                    "- ID " \o ToString(filtered_emails[k].id) \o ": "
                    \o filtered_emails[k].subject])
        ELSE NoneFoundMessage(target_category)

MockResponse(user_query, email_id) ==
    "Mock response for query: '" \o user_query \o "'. If email ID "
    \o IdText(email_id) \o " was selected, it was used as context."

\* The conditions of the dispatch, on the lower-cased query.
AsksDraft(q) == Contains("draft a reply", q)

AsksSummary(q) == Contains("summarize", q)

AsksTasks(q) == Contains("tasks", q)

AsksFilter(q) == Contains("show me all", q) \/ Contains("urgent emails", q)

TargetCategory(q) == IF Contains("urgent", q) THEN "Important" ELSE "To-Do"

\* A general path that lets the LLM's exception through, as the text the
\* chat input handler shows for it.
GeneralResponse_uncaught(llm, outcome, user_query, email_id) ==
    IF llm = "present"
    THEN IF outcome = "ok" THEN strip(LLMChatAnswer)
         ELSE "Error: LLM unavailable\n\nPlease try again or contact support."
    ELSE MockResponse(user_query, email_id)

\* The general path: the LLM's stripped answer, the fixed error string
\* when the call raises, the placeholder without an LLM.
GeneralResponse(llm, outcome, user_query, email_id) ==
    IF llm = "present"
    THEN IF outcome = "ok" THEN strip(LLMChatAnswer) ELSE ChatErrorMessage
    ELSE MockResponse(user_query, email_id)

\* The queries typed into the chat.
Queries ==
    { "Please draft a reply",
      "What tasks do I need?",
      "Summarize the tasks",
      "Summarize and show me all",
      "Show me all urgent emails" }

\* user_query.lower(), computed once for the queries of the chat.
LoweredQueries == [user_query \in Queries |-> lower(user_query)]

query_lower(user_query) ==
    IF user_query \in DOMAIN LoweredQueries THEN LoweredQueries[user_query]
    ELSE lower(user_query)

\* handle_chat_query as a dispatch over the summarize-before-tasks
\* if/elif of the source: a query holding "summarize" skips the tasks
\* branch and falls through to the category filter and the general path.
handle_chat_query(emails, llm, outcome, user_query, email_id) ==
    LET q == query_lower(user_query)
        i == IF email_id # NoneId THEN get_email_by_id(emails, email_id) ELSE 0
    IN  IF i # 0 /\ AsksDraft(q)
        THEN DraftResponse(draft_auto_reply(emails[i], llm, outcome))
        ELSE IF i # 0 /\ ~AsksSummary(q) /\ AsksTasks(q)
        THEN TasksResponse(emails[i].action_items)
        ELSE IF AsksFilter(q)
        THEN FilterResponse(emails, TargetCategory(q))
        ELSE GeneralResponse(llm, outcome, user_query, email_id)

(***************************************************************************)
(* The application (src/app.py): a PromptManager and an agent built at     *)
(* startup, then the user's operations on them in any order.  The email    *)
(* source may be edited between operations.                                *)
(***************************************************************************)
MaxChatTurns == 1

FallbackIdle ==
    /\ email = EmailRecord(0, "", "", "")
    /\ pc = "idle"
    /\ ret_category = ""
    /\ ret_actions = << >>
    /\ ret_draft = ""

\* load_manager_and_agent: PromptManager() loads the emails and the
\* prompts; an exception stops the application.
Init ==
    /\ FallbackIdle
    /\ source \in Inboxes
    /\ LLM \in {"None", "present"}
    /\ selected_email_id = NoneId
    /\ chat_history = << >>
    /\ LET loaded == _load_emails(source, << >>)
       IN  IF loaded.raised
           THEN /\ app = "stopped"
                /\ _emails = << >>
                /\ _prompts = << >>
                /\ ret = Outcome("_load_emails", "", NoneId, "none", "raised",
                                 "ValidationError")
           ELSE /\ app = "running"
                /\ _emails = loaded.emails
                /\ _prompts = DefaultPrompts
                /\ ret = Outcome("_load_emails", "", NoneId, "none", "returned", "None")

\* The file of the email source is replaced.
SourceEdited ==
    /\ app = "running"
    /\ \E raw_emails \in Inboxes \ {source} : source' = raw_emails
    /\ UNCHANGED <<_emails, _prompts, LLM, app, selected_email_id,
                   chat_history, ret>>
    /\ UNCHANGED fbVars

\* The Load Mock Inbox button: manager._load_emails().
LoadMockInbox ==
    /\ app = "running"
    /\ LET loaded == _load_emails(source, _emails)
       IN  /\ _emails' = loaded.emails
           /\ ret' = IF loaded.raised
                     THEN Outcome("_load_emails", "", NoneId, "none", "raised",
                                  "ValidationError")
                     ELSE Outcome("_load_emails", "", NoneId, "none", "returned",
                                  "None")
    /\ UNCHANGED <<_prompts, source, LLM, app, selected_email_id, chat_history>>
    /\ UNCHANGED fbVars

\* The Run Ingestion Pipeline button.
RunIngestionPipeline ==
    /\ app = "running"
    /\ \E outcomes \in [DOMAIN _emails -> OutcomesFor(LLM)] :
           LET run == run_ingestion_pipeline(_emails, source, LLM, outcomes)
           IN  /\ _emails' = run.emails
               /\ ret' = IF run.raised
                         THEN Outcome("run_ingestion_pipeline", "", NoneId, outcomes,
                                      "raised", "ValidationError")
                         ELSE Outcome("run_ingestion_pipeline", "", NoneId, outcomes,
                                      "returned", "None")
    /\ UNCHANGED <<_prompts, source, LLM, app, selected_email_id, chat_history>>
    /\ UNCHANGED fbVars

\* agent.process_email_ingestion(email_id)
ProcessEmailIngestion ==
    /\ app = "running"
    /\ \E email_id \in EmailIds, outcomes \in OutcomesFor(LLM) :
           LET done == process_email_ingestion(_emails, email_id, LLM, outcomes)
           IN  /\ _emails' = done.emails
               /\ ret' = Outcome("process_email_ingestion", "", email_id, outcomes,
                                 "returned",
                                 IF done.saved THEN "saved" ELSE "not found")
    /\ UNCHANGED <<_prompts, source, LLM, app, selected_email_id, chat_history>>
    /\ UNCHANGED fbVars

\* The arguments given to save_email_state.
SaveArgs ==
    { [category |-> Some("To-Do"),
       action_items |-> Some(<< Dict([task |-> "Call Bob", deadline |-> "Monday"]),
                                ActionItem("Send report", "Friday"),
                                [note |-> "not an action item"] >>),
       draft_reply |-> Some("Noted.")],
      [category |-> None,
       action_items |-> Some(<< Dict([task |-> "Call back"]) >>),
       draft_reply |-> None] }

\* manager.save_email_state(email_id, category, action_items, draft_reply)
SaveEmailState ==
    /\ app = "running"
    /\ \E email_id \in EmailIds, a \in SaveArgs :
           LET saved == save_email_state(_emails, email_id, a.category,
                                         a.action_items, a.draft_reply)
           IN  /\ _emails' = saved.emails
               /\ ret' = Outcome("save_email_state", "", email_id, "none",
                                 IF saved.raised THEN "raised" ELSE "returned",
                                 saved.val)
    /\ UNCHANGED <<_prompts, source, LLM, app, selected_email_id, chat_history>>
    /\ UNCHANGED fbVars

\* manager.get_email_by_id(email_id)
GetEmailById ==
    /\ app = "running"
    /\ \E email_id \in EmailIds :
           LET i == get_email_by_id(_emails, email_id)
           IN  ret' = Outcome("get_email_by_id", "", email_id, "none", "returned",
                              IF i = 0 THEN "None"
                              ELSE "_emails[" \o ToString(i) \o "]")
    /\ UNCHANGED <<_emails, _prompts, source, LLM, app, selected_email_id,
                   chat_history>>
    /\ UNCHANGED fbVars

\* The prompt names and template texts given to update_prompt_template.
PromptNameArgs == {"Categorization_Prompt", "Summary_Prompt"}

TemplateArgs == {Some("Respond with ONLY the category name."), None}

\* manager.update_prompt_template(prompt_name, new_template)
UpdatePromptTemplate ==
    /\ app = "running"
    /\ \E prompt_name \in PromptNameArgs, new_template \in TemplateArgs :
           LET updated == update_prompt_template(_prompts, prompt_name,
                                                 new_template)
           IN  /\ _prompts' = updated.prompts
               /\ ret' = Outcome("update_prompt_template", prompt_name, NoneId, "none",
                                 "returned", updated.val)
    /\ UNCHANGED <<_emails, source, LLM, app, selected_email_id, chat_history>>
    /\ UNCHANGED fbVars

\* The email selector of display_email_list: one of the listed emails.
SelectEmail ==
    /\ app = "running"
    /\ \E i \in DOMAIN _emails :
           /\ selected_email_id' = _emails[i].id
           /\ ret' = Outcome("select_email", "", _emails[i].id, "none", "returned",
                             "None")
    /\ UNCHANGED <<_emails, _prompts, source, LLM, app, chat_history>>
    /\ UNCHANGED fbVars

\* The query reaches an LLM call: the draft of the draft-a-reply rule or
\* the chain of the general path.
ChatCallsLLM(emails, user_query, email_id) ==
    LET q == query_lower(user_query)
        i == IF email_id # NoneId THEN get_email_by_id(emails, email_id) ELSE 0
    IN  \/ i # 0 /\ AsksDraft(q)
        \/ /\ ~(i # 0 /\ ~AsksSummary(q) /\ AsksTasks(q))
           /\ ~AsksFilter(q)

\* The outcomes of the LLM call of a chat query ("none" when none is made).
ChatOutcomesFor(llm, emails, user_query, email_id) ==
    IF llm = "present" /\ ChatCallsLLM(emails, user_query, email_id)
    THEN LLMOutcomes ELSE {"none"}

\* A handle_chat_query whose draft-a-reply rule also stores the generated
\* draft in the selected record.
HandleChatQuery_stores_draft ==
    /\ app = "running"
    /\ \E user_query \in Queries, email_id \in EmailIds \cup {NoneId} :
       \E outcome \in ChatOutcomesFor(LLM, _emails, user_query, email_id) :
           LET i == IF email_id # NoneId
                    THEN get_email_by_id(_emails, email_id) ELSE 0
           IN  /\ ret' = Outcome("handle_chat_query", user_query, email_id,
                                 outcome, "returned",
                                 handle_chat_query(_emails, LLM, outcome,
                                                   user_query, email_id))
               /\ _emails' =
                      IF i # 0 /\ AsksDraft(query_lower(user_query))
                      THEN [_emails EXCEPT ![i].draft_reply =
                               draft_auto_reply(_emails[i], LLM, outcome)]
                      ELSE _emails
    /\ UNCHANGED <<_prompts, source, LLM, app, selected_email_id,
                   chat_history>>
    /\ UNCHANGED fbVars

\* agent.handle_chat_query(user_query, email_id)
HandleChatQuery ==
    /\ app = "running"
    /\ \E user_query \in Queries, email_id \in EmailIds \cup {NoneId} :
       \E outcome \in ChatOutcomesFor(LLM, _emails, user_query, email_id) :
           ret' = Outcome("handle_chat_query", user_query, email_id, outcome,
                          "returned",
                          handle_chat_query(_emails, LLM, outcome, user_query,
                                            email_id))
    /\ UNCHANGED <<_emails, _prompts, source, LLM, app, selected_email_id,
                   chat_history>>
    /\ UNCHANGED fbVars

\* The chat input of the Email Agent Chat tab, shown when the selected
\* email exists: the prompt and the response are appended to the history
\* (kept here as the roles of its messages).
ChatInput ==
    /\ app = "running"
    /\ selected_email_id # NoneId
    /\ get_email_by_id(_emails, selected_email_id) # 0
    /\ Len(chat_history) + 2 <= 2 * MaxChatTurns
    /\ \E prompt \in Queries :
       \E outcome \in ChatOutcomesFor(LLM, _emails, prompt, selected_email_id) :
           ret' = Outcome("handle_chat_query", prompt, selected_email_id, outcome,
                          "returned",
                          handle_chat_query(_emails, LLM, outcome, prompt,
                                            selected_email_id))
    /\ chat_history' = chat_history \o <<"user", "assistant">>
    /\ UNCHANGED <<_emails, _prompts, source, LLM, app, selected_email_id>>
    /\ UNCHANGED fbVars

\* A Clear Chat History that also clears the drafts the chat may have shown.
ClearChatHistory_clears_drafts ==
    /\ app = "running"
    /\ chat_history' = << >>
    /\ _emails' = [i \in DOMAIN _emails |-> [_emails[i] EXCEPT !.draft_reply = ""]]
    /\ ret' = Outcome("clear_chat_history", "", NoneId, "none", "returned", "None")
    /\ UNCHANGED <<_prompts, source, LLM, app, selected_email_id>>
    /\ UNCHANGED fbVars

\* The Clear Chat History button.
ClearChatHistory ==
    /\ app = "running"
    /\ chat_history' = << >>
    /\ ret' = Outcome("clear_chat_history", "", NoneId, "none", "returned", "None")
    /\ UNCHANGED <<_emails, _prompts, source, LLM, app, selected_email_id>>
    /\ UNCHANGED fbVars

\* A session of the application: the operations its pages offer.
Next ==
    \/ SourceEdited
    \/ LoadMockInbox
    \/ RunIngestionPipeline
    \/ UpdatePromptTemplate
    \/ SelectEmail
    \/ ChatInput
    \/ ClearChatHistory

Spec == Init /\ [][Next]_vars

\* Direct calls of the manager's and the agent's methods, with any
\* arguments, on the objects the application built from a source that
\* stays as it is.
ApiNext ==
    \/ LoadMockInbox
    \/ ProcessEmailIngestion
    \/ SaveEmailState
    \/ GetEmailById
    \/ UpdatePromptTemplate
    \/ HandleChatQuery

ApiSpec == Init /\ [][ApiNext]_vars

(***************************************************************************)
(* Claims about the record store, the agent and the chat.                  *)
(***************************************************************************)
\* The record a call's email id argument selects, as handle_chat_query
\* looks it up (0 when the id is None or no record has it).
Selected(email_id) ==
    IF email_id # NoneId THEN get_email_by_id(_emails, email_id) ELSE 0

\* C11: in every reachable state of the record store every record's
\* category is one of "", Important, To-Do, Newsletter, Spam.
C11_CategoryInAllowedSet ==
    \A i \in DOMAIN _emails : _emails[i].category \in Categories \cup {""}

\* C12: the chat rules apply in the order draft-a-reply, tasks, summarize,
\* show-me-all: with an email selected, a query holding "tasks" (and no
\* "draft a reply") is answered by the tasks rule even if it also holds
\* "summarize", and a query holding "summarize" is not answered by the
\* category filter.
C12_ChatRulesInStatedOrder ==
    ret.op = "handle_chat_query" =>
        LET q == query_lower(ret.arg)
            i == Selected(ret.email_id)
        IN  /\ (i # 0 /\ ~AsksDraft(q) /\ AsksTasks(q))
                  => ret.val = TasksResponse(_emails[i].action_items)
            /\ (i # 0 /\ ~AsksDraft(q) /\ ~AsksTasks(q) /\ AsksSummary(q))
                  => ret.val # FilterResponse(_emails, TargetCategory(q))

\* Every LLM call of an ingestion raised.
AllRaise == [categorize |-> "raise", extract |-> "raise", draft |-> "raise"]

\* The record holds exactly what the fallback functions return for it.
HoldsFallbackResults(e) ==
    /\ e.category = _mock_categorize(e)
    /\ e.action_items = _mock_extract_actions(e)
    /\ e.draft_reply = _mock_draft_reply(e)

\* C13: when the LLM call raises, categorize_email, extract_action_items
\* and draft_auto_reply each return what the fallback returns for the same
\* email, whatever the other calls do; and a process_email_ingestion whose
\* LLM calls raise returns normally, having saved the fallback's category,
\* action items and draft reply in the record.
C13_LLMFailureFallsBack ==
    /\ \A i \in DOMAIN _emails :
         ret.op = "process_email_ingestion" =>
           /\ categorize_email(_emails[i], "present", "raise")
                  = _mock_categorize(_emails[i])
           /\ extract_action_items(_emails[i], "present", "raise")
                  = _mock_extract_actions(_emails[i])
           /\ draft_auto_reply(_emails[i], "present", "raise")
                  = _mock_draft_reply(_emails[i])
    /\ (/\ ret.op = "process_email_ingestion"
        /\ LLM = "present"
        /\ ret.llm = AllRaise
        /\ Selected(ret.email_id) # 0)
         => /\ ret.status = "returned"
            /\ ret.val = "saved"
            /\ HoldsFallbackResults(_emails[Selected(ret.email_id)])

C13_Witness ==
    /\ ret.op = "process_email_ingestion"
    /\ LLM = "present"
    /\ ret.llm = AllRaise
    /\ Selected(ret.email_id) # 0
    /\ ret.val = "saved"
    /\ Len(_emails[Selected(ret.email_id)].action_items) > 0
    /\ _emails[Selected(ret.email_id)].category \in Categories

\* No rule before the general path answers the query of the last call.
GeneralPath ==
    LET q == query_lower(ret.arg)
        i == Selected(ret.email_id)
    IN  /\ ~(i # 0 /\ AsksDraft(q))
        /\ ~(i # 0 /\ ~AsksSummary(q) /\ AsksTasks(q))
        /\ ~AsksFilter(q)

Processed(e) == <<e.category, e.action_items, e.draft_reply>>

\* Some record of the store has been processed.
SomeProcessed == \E i \in DOMAIN _emails : _emails[i].category # ""

\* A step keeps every record, in place, with its processed fields.
RecordsKept ==
    /\ Len(_emails') >= Len(_emails)
    /\ \A i \in DOMAIN _emails :
           /\ _emails'[i].id = _emails[i].id
           /\ Processed(_emails'[i]) = Processed(_emails[i])

\* C15 as stated: only the ingestion pipeline and the chat change a
\* record's processed fields, and no operation removes a record; Load Mock
\* Inbox, editing a prompt, selecting an email and clearing the chat
\* history keep every record.
C15_OnlyIngestionOrChatMutates ==
    [][ ret'.op \notin {"run_ingestion_pipeline", "handle_chat_query"}
            => RecordsKept ]_vars

\* C15 amended: editing a prompt, selecting an email and clearing the chat
\* history keep every record with its processed fields; the ingestion
\* pipeline, and Load Mock Inbox, which replaces the records by fresh ones
\* of the source, are the operations that change or remove them.
C15_OnlyIngestionOrReloadMutates ==
    [][ ret'.op \in {"update_prompt_template", "select_email",
                     "clear_chat_history"}
            => RecordsKept ]_vars

C15_Witness ==
    /\ ret.op = "clear_chat_history"
    /\ SomeProcessed
    /\ \E i \in DOMAIN _emails : _emails[i].draft_reply # ""

\* The "not found" signal of each operation that takes an email id.
NotFoundSignal(op) ==
    IF op = "get_email_by_id" THEN "None"
    ELSE IF op = "save_email_state" THEN "False"
    ELSE "not found"

\* C16: get_email_by_id, save_email_state and process_email_ingestion on
\* an id no record has return their "not found" signal (None, False,
\* return without saving) without raising, and leave every record of the
\* store unchanged.
C16_UnknownIdChangesNothing ==
    [][ (/\ ret'.op \in {"get_email_by_id", "save_email_state",
                         "process_email_ingestion"}
         /\ get_email_by_id(_emails, ret'.email_id) = 0)
            => /\ ret'.status = "returned"
               /\ ret'.val = NotFoundSignal(ret'.op)
               /\ _emails' = _emails ]_vars

C16_Witness ==
    /\ ret.op = "save_email_state"
    /\ ret.email_id = UnknownId
    /\ ret.val = "False"
    /\ SomeProcessed

\* Two prompt templates agree in every field but the template text.
SameButTemplate(a, b) == [a EXCEPT !.template = b.template] = b

\* C17: update_prompt_template returns True and the stored configuration
\* differs from the prior one only in the template text of the named
\* prompt, or it returns False and the stored configuration is the prior
\* one.
C17_UpdateTwoOutcomes ==
    [][ ret'.op = "update_prompt_template"
            => \/ /\ ret'.val = "True"
                  /\ ret'.arg \in PromptNames
                  /\ \A n \in PromptNames :
                         IF n = ret'.arg
                         THEN SameButTemplate(_prompts'[n], _prompts[n])
                         ELSE _prompts'[n] = _prompts[n]
               \/ /\ ret'.val = "False"
                  /\ _prompts' = _prompts ]_vars

C17_Witness ==
    /\ ret.op = "update_prompt_template"
    /\ ret.val = "True"
    /\ _prompts # DefaultPrompts
    /\ _prompts.Categorization_Prompt.template
           = "Respond with ONLY the category name."

\* Some item of the source fails validation.
SourceInvalid == \E i \in DOMAIN source : ~ItemValid(source[i])

\* The list holds one record per item of the source, in source order, with
\* the item's id, sender, subject and body.
SameEmailsAsSource(emails) ==
    /\ Len(emails) = Len(source)
    /\ \A i \in DOMAIN source :
           /\ emails[i].id = source[i].id
           /\ emails[i].sender = source[i].sender
           /\ emails[i].subject = source[i].subject
           /\ emails[i].body = source[i].body

\* The list is the source as loaded: its emails, each with the item's
\* action items as ActionItems.
StoreIsSource(emails) ==
    /\ SameEmailsAsSource(emails)
    /\ \A i \in DOMAIN source :
           /\ Len(emails[i].action_items) = Len(RawActionItems(source[i]))
           /\ \A k \in DOMAIN emails[i].action_items :
                  /\ emails[i].action_items[k].task
                         = RawActionItems(source[i])[k].dict.task
                  /\ emails[i].action_items[k].deadline
                         = RawActionItems(source[i])[k].dict.deadline

\* At startup a source with an invalid item stops the application with no
\* store; a valid source is loaded whole.
StartupAllOrNothing ==
    IF SourceInvalid
    THEN app = "stopped" /\ _emails = << >> /\ ret.status = "raised"
    ELSE app = "running" /\ StoreIsSource(_emails)

\* A reload raises and keeps the previous list when the source has an
\* invalid item, and otherwise loads the source whole.
ReloadAllOrNothing ==
    LoadMockInbox
        => IF SourceInvalid
           THEN ret'.status = "raised" /\ _emails' = _emails
           ELSE ret'.status = "returned" /\ StoreIsSource(_emails')

\* C18: loading is all-or-nothing: with an invalid item in the source
\* _load_emails raises and the email list is not replaced by a partial one
\* (no store at startup, the previous list on a reload); otherwise the
\* store holds every record of the source in source order.
C18_LoadAllOrNothing == StartupAllOrNothing /\ [][ReloadAllOrNothing]_vars

C18_Witness ==
    /\ ret.op = "_load_emails"
    /\ ret.status = "raised"
    /\ app = "running"
    /\ SourceInvalid
    /\ Len(_emails) = 2
    /\ SomeProcessed

\* The ActionItems and the sequences of them that the round trip is
\* checked on.
MaxItems == 2

SomeActionItems ==
    { ActionItem("Call Bob", "Monday"), ActionItem("Send report", "None"),
      ActionItem("", "") }

RECURSIVE SeqsUpTo(_, _)
SeqsUpTo(S, n) ==
    IF n = 0 THEN { << >> }
    ELSE SeqsUpTo(S, n - 1)
         \cup { Append(q, x) : q \in SeqsUpTo(S, n - 1), x \in S }

\* [item.dict() for item in action_items], as process_email_ingestion
\* passes the items to save_email_state.
AsDicts(action_items) ==
    [k \in DOMAIN action_items |-> ActionItemDict(action_items[k])]

\* The action_items of record i after save_email_state stores the dicts.
RoundTrip(i, action_items) ==
    save_email_state(_emails, _emails[i].id, None, Some(AsDicts(action_items)),
                     None).emails[get_email_by_id(_emails, _emails[i].id)]
        .action_items

\* C19: ActionItems converted to plain mappings and stored through
\* save_email_state come back with the same length, order, tasks and
\* deadlines: so for every sequence of ActionItems stored in a record of
\* the store, and so for the items process_email_ingestion has just
\* extracted and saved.
C19_ActionItemsRoundTrip ==
    (ret.op = "process_email_ingestion" /\ ret.val = "saved") =>
        LET i == Selected(ret.email_id)
        IN  /\ _emails[i].action_items
                   = extract_action_items(_emails[i], LLM, ret.llm.extract)
            /\ \A action_items \in SeqsUpTo(SomeActionItems, MaxItems) :
                   LET stored == RoundTrip(i, action_items)
                   IN  /\ Len(stored) = Len(action_items)
                       /\ \A k \in DOMAIN action_items :
                              /\ stored[k].task = action_items[k].task
                              /\ stored[k].deadline = action_items[k].deadline

C19_Witness ==
    /\ ret.op = "process_email_ingestion"
    /\ ret.val = "saved"
    /\ Len(_emails[Selected(ret.email_id)].action_items) >= 2
    /\ _emails[Selected(ret.email_id)].action_items[1]
           # _emails[Selected(ret.email_id)].action_items[2]

\* No two records of the list have the same id.
DistinctIds(emails) ==
    \A i, j \in DOMAIN emails : emails[i].id = emails[j].id => i = j

\* The step is a completed ingestion pass in fallback mode.
FallbackPass ==
    /\ ret'.op = "run_ingestion_pipeline"
    /\ ret'.status = "returned"
    /\ LLM = "None"
    /\ RunIngestionPipeline

\* C20 as stated: after an ingestion pass in fallback mode every email of
\* the store holds the category, action items and draft reply the fallback
\* functions give for its own subject, body and sender, whatever the order
\* of the emails and whatever other emails the store holds.
C20_EveryEmailGetsOwnResult ==
    [][ FallbackPass
            => \A i \in DOMAIN _emails' : HoldsFallbackResults(_emails'[i])
      ]_vars

\* C20 amended: the same, for a pass over a store whose ids are pairwise
\* distinct and which holds the emails of the source as it is now.
C20_OwnResultWhenIdsDistinct ==
    [][ (FallbackPass /\ DistinctIds(_emails) /\ SameEmailsAsSource(_emails))
            => \A i \in DOMAIN _emails' : HoldsFallbackResults(_emails'[i])
      ]_vars

C20_Witness ==
    /\ ret.op = "run_ingestion_pipeline"
    /\ LLM = "None"
    /\ DistinctIds(_emails)
    /\ Len(_emails) = 2
    /\ \A i \in DOMAIN _emails : HoldsFallbackResults(_emails[i])
    /\ _emails[1].category # _emails[2].category


\* The show-me-all rule answers the last chat query: the query holds
\* "show me all" or "urgent emails" and neither the draft-a-reply rule nor
\* the tasks rule answered for a selected email.
ShowMeAllApplies ==
    /\ ret.op = "handle_chat_query"
    /\ LET q == query_lower(ret.arg)
           i == Selected(ret.email_id)
       IN  /\ Contains("show me all", q) \/ Contains("urgent emails", q)
           /\ ~(i # 0 /\ Contains("draft a reply", q))
           /\ ~(i # 0 /\ ~Contains("summarize", q) /\ Contains("tasks", q))

\* The target category of the last chat query.
Target ==
    IF Contains("urgent", query_lower(ret.arg)) THEN "Important" ELSE "To-Do"

\* The positions of the records whose stored category is the target.
Matching == { i \in DOMAIN _emails : _emails[i].category = Target }

\* The k-th matching position in store order.
NthMatching(k) ==
    CHOOSE i \in Matching : Cardinality({ j \in Matching : j < i }) = k - 1

\* The list the response is to show: a header with the count, then one
\* line per matching record in store order.
ListedInStoreOrder ==
    "Found " \o ToString(Cardinality(Matching)) \o " emails categorized as **"
    \o Target \o "**:\n"
    \o join_lines([k \in 1..Cardinality(Matching) |->
           "- ID " \o ToString(_emails[NthMatching(k)].id) \o ": "
           \o _emails[NthMatching(k)].subject])

\* C21: when the show-me-all rule applies, the response is the none-found
\* message if and only if no record has the target category (Important when
\* the query holds "urgent", else To-Do), and otherwise it lists exactly
\* the records of that category, in store order, with their count.
C21_ShowMeAllListsTargetCategory ==
    ShowMeAllApplies =>
        /\ (ret.val = NoneFoundMessage(Target)) <=> (Matching = {})
        /\ Matching # {} => ret.val = ListedInStoreOrder

C21_Witness ==
    /\ ShowMeAllApplies
    /\ Cardinality(Matching) >= 2
    /\ ret.val = ListedInStoreOrder
    /\ _emails[NthMatching(1)].subject # _emails[NthMatching(2)].subject

\* The last chat query was answered by the draft-a-reply rule for the
\* record at position i.
DraftRuleAnswered(i) ==
    /\ ret.op = "handle_chat_query"
    /\ i = Selected(ret.email_id)
    /\ i # 0
    /\ Contains("draft a reply", query_lower(ret.arg))

\* C22: a chat query changes neither the record store nor the prompt
\* configuration: after handle_chat_query, also when the draft-a-reply rule
\* answers, every record (its category, action_items and draft_reply
\* included) and every prompt is what it was before the call.
C22_ChatLeavesStoreAndPrompts ==
    [][ ret'.op = "handle_chat_query"
            => /\ _emails' = _emails
               /\ _prompts' = _prompts ]_vars

C22_Witness ==
    \E i \in DOMAIN _emails :
        /\ DraftRuleAnswered(i)
        /\ ret.val = DraftResponse(draft_auto_reply(_emails[i], LLM, ret.llm))
        /\ _emails[i].draft_reply # draft_auto_reply(_emails[i], LLM, ret.llm)
        /\ _emails[i].category # ""

\* The record given to the fallback functions once its results are stored
\* in it: the same sender, subject and body, the processed fields filled.
ProcessedRecord(e, category, action_items, draft_reply) ==
    [ id           |-> e.id,
      sender       |-> e.sender,
      subject      |-> e.subject,
      body         |-> e.body,
      category     |-> category,
      action_items |-> action_items,
      draft_reply  |-> draft_reply ]

FreshlyLoaded == _load_emails(source, << >>).emails

\* A pass in fallback mode makes no LLM call for any email of the list.
NoCallsFor(emails) == [k \in DOMAIN emails |-> NoCalls]

\* The store a pass in fallback mode leaves, started from the given store.
PassFrom(emails) ==
    run_ingestion_pipeline(emails, source, "None", NoCallsFor(emails)).emails

\* C24: with the LLM absent and the store holding the emails of the
\* unchanged source, an ingestion pass is idempotent on the store: the
\* store it leaves is the one a pass over the freshly loaded source leaves
\* (whatever processed fields the records held before), a second pass
\* right after it leaves every record as the first did, and every record
\* holds either exactly the fallback results for itself or what the load
\* gave it, so no action items add up across passes.
C24_FallbackPassIdempotent ==
    [][ (FallbackPass /\ SameEmailsAsSource(_emails))
            => /\ _emails' = PassFrom(FreshlyLoaded)
               /\ PassFrom(_emails') = _emails'
               /\ \A i \in DOMAIN _emails' :
                      \/ HoldsFallbackResults(_emails'[i])
                      \/ _emails'[i] = FreshlyLoaded[i] ]_vars

C24_Witness ==
    /\ ret.op = "run_ingestion_pipeline"
    /\ ret.status = "returned"
    /\ LLM = "None"
    /\ SameEmailsAsSource(_emails)
    /\ PassFrom(_emails) = _emails
    /\ \E i \in DOMAIN _emails :
           /\ FreshlyLoaded[i].action_items # << >>
           /\ HoldsFallbackResults(_emails[i])
           /\ _emails[i].action_items # FreshlyLoaded[i].action_items

====
